---- MODULE Spec2Model ----
(***************************************************************************)
(* Model of the Dockerfile generator: the server-side generation handler   *)
(* (src/api/generate-dockerfile.ts) and the client form controller         *)
(* (src/pages/Index.tsx).                                                  *)
(***************************************************************************)
EXTENDS Integers, Sequences, FiniteSets, TLC

VARIABLES
    \* ---- generation handler (generate-dockerfile.ts) ----
    hpc,            \* position of the handler: "idle", "awaitFetch", "done"
    req,            \* the request being handled
    apiKey,         \* process.env.OPENROUTER_API_KEY as read by the request
    res,            \* what the handler answered
    upstreamCalls,  \* OpenRouter calls issued during the current request
    upstream,       \* the OpenRouter response the request received, if any
    \* ---- client form controller (Index.tsx) ----
    repoUrl,              \* useState(''), a sequence of characters
    isGenerating,         \* useState(false)
    generatedDockerfile,  \* useState('')
    repoInfo,             \* useState(null)
    toast,                \* title of the last toast shown
    chains,               \* generateDockerfile calls suspended at their await
    network,              \* outbound requests the page has issued
    \* ---- validator and parser applied to an arbitrary input ----
    upc,                  \* "input", "validated", "extracted"
    url,                  \* the input string
    accepted,             \* validateGithubUrl(url)
    extracted             \* extractRepoInfo(url)

hvars == <<hpc, req, apiKey, res, upstreamCalls, upstream>>
cvars == <<repoUrl, isGenerating, generatedDockerfile, repoInfo, toast, chains, network>>
uvars == <<upc, url, accepted, extracted>>
vars == <<hvars, cvars, uvars>>

(***************************************************************************)
(* Generation handler                                                      *)
(***************************************************************************)

Methods == {"GET", "POST", "PUT", "DELETE"}

\* req.body.repoInfo as JavaScript sees it
RepoInfoKinds == {"absent", "null", "emptyString", "emptyObject", "metadata"}

\* req.body: no object at all (undefined or null), or an object that may
\* carry repoInfo
Bodies == [present : BOOLEAN, repoInfo : RepoInfoKinds]

\* process.env.OPENROUTER_API_KEY
ApiKeys == {"unset", "", "sk-or-key"}

UpstreamMessages == {"Rate limit exceeded", "No auth credentials found"}

\* shapes of the body of the OpenRouter response
UpstreamBodyKinds ==
    {"notJson", "jsonNull", "emptyObject", "errorNoMessage", "errorEmptyMessage",
     "errorMessage", "choicesEmpty", "choicesNoContent", "choicesContent"}

UpstreamResponses ==
    [ok : BOOLEAN, kind : UpstreamBodyKinds \ {"errorMessage"}, message : {""}]
        \cup [ok : BOOLEAN, kind : {"errorMessage"}, message : UpstreamMessages]

\* no response received (yet)
NoUpstream == [ok |-> FALSE, kind |-> "none", message |-> ""]

\* no request received (yet)
NoRequest == [method |-> "", body |-> [present |-> FALSE, repoInfo |-> "absent"]]

GenericFailure == "Failed to generate Dockerfile"
JsonSyntaxError == "Unexpected token < in JSON at position 0"
NullTypeError == "Cannot read properties of null"
UndefinedTypeError == "Cannot read properties of undefined"
NetworkError == "fetch failed"
DockerfileText == "FROM node:18-alpine"

NoResponse == [status |-> 0, error |-> "", dockerfile |-> "", thrown |-> ""]

Json(status, error) ==
    [status |-> status, error |-> error, dockerfile |-> "", thrown |-> ""]

Ok200(dockerfile) ==
    [status |-> 200, error |-> "", dockerfile |-> dockerfile, thrown |-> ""]

Rejected(exception) ==
    [status |-> 0, error |-> "", dockerfile |-> "", thrown |-> exception]

\* JavaScript truthiness of repoInfo: `!repoInfo`
RepoInfoTruthy(kind) == kind \in {"emptyObject", "metadata"}

\* JavaScript truthiness of the key: `!apiKey`
ApiKeyTruthy_DefinedOnly(k) == k # "unset"

ApiKeyTruthy(k) == k \notin {"unset", ""}

\* `const { repoInfo } = req.body` throws when req.body is undefined or null
DestructureThrows(body) == ~body.present

\* The synchronous part of the handler, up to the await of fetch:
\* the response it sends, NoResponse when it goes on to call OpenRouter.
HandlerEntry_AnyMethod(method, body, key) ==
    IF DestructureThrows(body) THEN Rejected("TypeError")
    ELSE IF ~RepoInfoTruthy(body.repoInfo)
         THEN Json(400, "Repository information is required")
    ELSE IF ~ApiKeyTruthy(key) THEN Json(500, "API key not configured")
    ELSE NoResponse

HandlerEntry(method, body, key) ==
    IF method # "POST" THEN Json(405, "Method not allowed")
    ELSE IF DestructureThrows(body) THEN Rejected("TypeError")
    ELSE IF ~RepoInfoTruthy(body.repoInfo)
         THEN Json(400, "Repository information is required")
    ELSE IF ~ApiKeyTruthy(key) THEN Json(500, "API key not configured")
    ELSE NoResponse

\* errorData.error?.message || 'Failed to generate Dockerfile', after
\* `await response.json()`; the text of the Error that is thrown
UpstreamErrorText(r) ==
    CASE r.kind = "notJson" -> JsonSyntaxError
      [] r.kind = "jsonNull" -> NullTypeError
      [] r.kind = "errorMessage" -> r.message
      [] OTHER -> GenericFailure

\* the try block after fetch resolved, and its catch
HandlerAfterFetch(r) ==
    IF ~r.ok THEN Json(500, UpstreamErrorText(r))
    ELSE CASE r.kind = "notJson" -> Json(500, JsonSyntaxError)
           [] r.kind = "jsonNull" -> Json(500, NullTypeError)
           [] r.kind \in {"emptyObject", "errorNoMessage", "errorEmptyMessage",
                          "errorMessage"} -> Json(500, UndefinedTypeError)
           [] r.kind \in {"choicesEmpty", "choicesNoContent"} -> Ok200("")
           [] OTHER -> Ok200(DockerfileText)

\* handler(req, res) is called: lines 3-62
HandlerStart ==
    /\ hpc \in {"idle", "done"}
    /\ \E m \in Methods, b \in Bodies, k \in ApiKeys :
         /\ req' = [method |-> m, body |-> b]
         /\ apiKey' = k
         /\ res' = HandlerEntry(m, b, k)
         /\ upstream' = NoUpstream
         /\ IF HandlerEntry(m, b, k) = NoResponse
            THEN hpc' = "awaitFetch" /\ upstreamCalls' = 1
            ELSE hpc' = "done" /\ upstreamCalls' = 0

\* fetch resolves with a response: lines 64-72, and the catch at 73-78
UpstreamRespond ==
    /\ hpc = "awaitFetch"
    /\ \E r \in UpstreamResponses :
         /\ res' = HandlerAfterFetch(r)
         /\ upstream' = r
    /\ hpc' = "done"
    /\ UNCHANGED <<req, apiKey, upstreamCalls>>

\* fetch rejects (no response at all): the catch at 73-78
UpstreamUnreachable ==
    /\ hpc = "awaitFetch"
    /\ res' = Json(500, NetworkError)
    /\ hpc' = "done"
    /\ UNCHANGED <<req, apiKey, upstreamCalls, upstream>>

HInit ==
    /\ hpc = "idle"
    /\ req = NoRequest
    /\ apiKey = "unset"
    /\ res = NoResponse
    /\ upstreamCalls = 0
    /\ upstream = NoUpstream

(***************************************************************************)
(* URL validator and parser (Index.tsx)                                    *)
(***************************************************************************)

\* \w of a JavaScript regular expression
WordChars ==
    {"a", "b", "c", "d", "e", "f", "g", "h", "i", "j", "k", "l", "m", "n", "o",
     "p", "q", "r", "s", "t", "u", "v", "w", "x", "y", "z",
     "A", "B", "C", "D", "E", "F", "G", "H", "I", "J", "K", "L", "M", "N", "O",
     "P", "Q", "R", "S", "T", "U", "V", "W", "X", "Y", "Z",
     "0", "1", "2", "3", "4", "5", "6", "7", "8", "9", "_"}

\* characters String.prototype.trim removes (U+00A0 and the other Unicode
\* spaces are removed the same way)
Whitespace == {" ", "\t", "\n", "\r"}

HttpsGithub ==
    <<"h", "t", "t", "p", "s", ":", "/", "/",
      "g", "i", "t", "h", "u", "b", ".", "c", "o", "m", "/">>

HttpGithub ==
    <<"h", "t", "t", "p", ":", "/", "/",
      "g", "i", "t", "h", "u", "b", ".", "c", "o", "m", "/">>

GithubCom == <<"g", "i", "t", "h", "u", "b", ".", "c", "o", "m", "/">>

DotGit == <<".", "g", "i", "t">>

StartsWithAt(s, k, p) ==
    /\ k + Len(p) - 1 <= Len(s)
    /\ SubSeq(s, k, k + Len(p) - 1) = p

EndsWith(s, p) ==
    /\ Len(s) >= Len(p)
    /\ SubSeq(s, Len(s) - Len(p) + 1, Len(s)) = p

RECURSIVE TrimStart(_)
TrimStart(s) ==
    IF s # <<>> /\ Head(s) \in Whitespace THEN TrimStart(Tail(s)) ELSE s

RECURSIVE TrimEnd(_)
TrimEnd(s) ==
    IF s # <<>> /\ s[Len(s)] \in Whitespace
    THEN TrimEnd(SubSeq(s, 1, Len(s) - 1))
    ELSE s

\* url.trim()
Trim(s) == TrimEnd(TrimStart(s))

\* the class [\w-]
IsSegmentChar_Dotted(c) == c \in WordChars \cup {"-", "."}

IsSegmentChar(c) == c \in WordChars \cup {"-"}

\* [\w-]+ from position i: the position after the longest run
RECURSIVE SegmentEnd(_, _)
SegmentEnd(s, i) ==
    IF i <= Len(s) /\ IsSegmentChar(s[i]) THEN SegmentEnd(s, i + 1) ELSE i

\* [^\/]+ from position i: the position after the longest run
RECURSIVE NonSlashEnd(_, _)
NonSlashEnd(s, i) ==
    IF i <= Len(s) /\ s[i] # "/" THEN NonSlashEnd(s, i + 1) ELSE i

\* /^https:\/\/github\.com\/[\w-]+\/[\w-]+\/?$/.test(s)
GithubPatternTest_LooseRepo(s) ==
    /\ StartsWithAt(s, 1, HttpsGithub)
    /\ LET a == Len(HttpsGithub) + 1
           i == SegmentEnd(s, a)
       IN  /\ i > a
           /\ i <= Len(s)
           /\ s[i] = "/"
           /\ LET j == NonSlashEnd(s, i + 1)
              IN  /\ j > i + 1
                  /\ \/ j = Len(s) + 1
                     \/ j = Len(s) /\ s[j] = "/"

GithubPatternTest(s) ==
    /\ StartsWithAt(s, 1, HttpsGithub)
    /\ LET a == Len(HttpsGithub) + 1
           i == SegmentEnd(s, a)
       IN  /\ i > a
           /\ i <= Len(s)
           /\ s[i] = "/"
           /\ LET j == SegmentEnd(s, i + 1)
              IN  /\ j > i + 1
                  /\ \/ j = Len(s) + 1
                     \/ j = Len(s) /\ s[j] = "/"

validateGithubUrl(u) == GithubPatternTest(Trim(u))

\* .replace(/\.git$/, '')
StripGit(r) ==
    IF EndsWith(r, DotGit) THEN SubSeq(r, 1, Len(r) - Len(DotGit)) ELSE r

\* /github\.com\/([^\/]+)\/([^\/]+)/ matches with "github.com/" at position k
RepoPatternAt(s, k) ==
    /\ StartsWithAt(s, k, GithubCom)
    /\ LET a == k + Len(GithubCom)
           i == NonSlashEnd(s, a)
       IN  /\ i > a
           /\ i <= Len(s)
           /\ NonSlashEnd(s, i + 1) > i + 1

\* the leftmost position from k on where the pattern matches, 0 if none
RECURSIVE RepoPatternSearch(_, _)
RepoPatternSearch(s, k) ==
    IF k > Len(s) THEN 0
    ELSE IF RepoPatternAt(s, k) THEN k
    ELSE RepoPatternSearch(s, k + 1)

\* extractRepoInfo returned null
NoMatch == [found |-> FALSE, owner |-> <<>>, repo |-> <<>>]

extractRepoInfo(u) ==
    LET k == RepoPatternSearch(u, 1)
    IN  IF k = 0 THEN NoMatch
        ELSE LET a == k + Len(GithubCom)
                 i == NonSlashEnd(u, a)
                 j == NonSlashEnd(u, i + 1)
             IN  [found |-> TRUE,
                  owner |-> SubSeq(u, a, i - 1),
                  repo |-> StripGit(SubSeq(u, i + 1, j - 1))]

(***************************************************************************)
(* Client form controller (Index.tsx)                                      *)
(***************************************************************************)

\* characters typed into the input beyond the pasted prefix
MaxTyped == 4

\* generateDockerfile calls that can be suspended at once
MaxChains == 2

TypedChars == {"a", "/", " "}

\* what the user has typed, not counting a pasted "https://github.com/"
TypedCount(u) ==
    IF StartsWithAt(u, 1, HttpsGithub) THEN Len(u) - Len(HttpsGithub) ELSE Len(u)

\* e.target.value after one edit of the input showing u
Edits(u) ==
    {u \o <<c>> : c \in IF TypedCount(u) < MaxTyped THEN TypedChars ELSE {}}
        \cup (IF u = <<>> THEN {HttpsGithub} ELSE {<<>>})

\* the mock languages, chosen by Math.floor(Math.random() * 5)
MockLanguages == <<"JavaScript", "TypeScript", "Python", "Java", "Go">>

InvalidUrlToast == "Invalid GitHub URL"
GeneratedToast == "Dockerfile Generated!"
FailedToast == "Generation Failed"

\* useState(null)
NoRepoInfo == [name |-> <<>>, language |-> ""]

\* useState('')
NoDockerfile == [language |-> "", repo |-> <<>>]

\* dockerfileTemplates[language], which interpolates repoInfo.repo
Template(language, repo) == [language |-> language, repo |-> repo]

\* the Generate button's disabled attribute
ButtonDisabled_NoBusy(busy, u) == Trim(u) = <<>>

ButtonDisabled(busy, u) == busy \/ Trim(u) = <<>>

\* onChange of the input
SetRepoUrl ==
    /\ \E v \in Edits(repoUrl) : repoUrl' = v
    /\ UNCHANGED <<isGenerating, generatedDockerfile, repoInfo, toast, chains, network>>

\* onClick of the Generate button: generateDockerfile up to its await
GenerateClick ==
    /\ ~ButtonDisabled(isGenerating, repoUrl)
    /\ Len(chains) < MaxChains
    /\ IF ~validateGithubUrl(repoUrl)
       THEN /\ toast' = InvalidUrlToast
            /\ UNCHANGED <<isGenerating, chains>>
       ELSE LET info == extractRepoInfo(repoUrl)
            IN  IF ~info.found
                THEN /\ toast' = FailedToast
                     /\ isGenerating' = FALSE
                     /\ UNCHANGED chains
                ELSE /\ isGenerating' = TRUE
                     /\ chains' = Append(chains, [owner |-> info.owner, repo |-> info.repo])
                     /\ UNCHANGED toast
    /\ UNCHANGED <<repoUrl, generatedDockerfile, repoInfo, network>>

\* the finally block
Finally_KeepBusy(busy) == busy

Finally(busy) == FALSE

\* the timer of the oldest suspended call fires: the rest of generateDockerfile
TimerFires ==
    /\ chains # <<>>
    /\ \E n \in 1..Len(MockLanguages) :
         LET c == Head(chains)
             mockLanguage == MockLanguages[n]
         IN  /\ repoInfo' = [name |-> c.owner \o <<"/">> \o c.repo,
                             language |-> mockLanguage]
             /\ generatedDockerfile' = Template(mockLanguage, c.repo)
    /\ toast' = GeneratedToast
    /\ isGenerating' = Finally(isGenerating)
    /\ chains' = Tail(chains)
    /\ UNCHANGED <<repoUrl, network>>

CInit ==
    /\ repoUrl = <<>>
    /\ isGenerating = FALSE
    /\ generatedDockerfile = NoDockerfile
    /\ repoInfo = NoRepoInfo
    /\ toast = ""
    /\ chains = <<>>
    /\ network = <<>>

(***************************************************************************)
(* The validator and the parser on arbitrary inputs                        *)
(***************************************************************************)

\* fragments an input is made of after its prefix
MaxFragments == 4

Fragments == {<<"a">>, <<"-">>, <<"/">>, <<" ">>, DotGit}

RECURSIVE Tails(_)
Tails(n) ==
    IF n = 0 THEN {<<>>}
    ELSE Tails(n - 1) \cup {t \o f : t \in Tails(n - 1), f \in Fragments}

Inputs ==
    {l \o h \o t : l \in {<<>>, <<" ">>}, h \in {HttpsGithub, HttpGithub},
                   t \in Tails(MaxFragments)}

ApplyValidate ==
    /\ upc = "input"
    /\ accepted' = validateGithubUrl(url)
    /\ upc' = "validated"
    /\ UNCHANGED <<url, extracted>>

ApplyExtract ==
    /\ upc = "validated"
    /\ extracted' = extractRepoInfo(url)
    /\ upc' = "extracted"
    /\ UNCHANGED <<url, accepted>>

UInit ==
    /\ upc = "input"
    /\ url \in Inputs
    /\ accepted = FALSE
    /\ extracted = NoMatch

UIdle ==
    /\ upc = "input"
    /\ url = <<>>
    /\ accepted = FALSE
    /\ extracted = NoMatch

(***************************************************************************)
(* Specifications                                                          *)
(***************************************************************************)

HandlerNext ==
    \/ HandlerStart /\ UNCHANGED <<cvars, uvars>>
    \/ UpstreamRespond /\ UNCHANGED <<cvars, uvars>>
    \/ UpstreamUnreachable /\ UNCHANGED <<cvars, uvars>>

HandlerInit == HInit /\ CInit /\ UIdle

HandlerSpec == HandlerInit /\ [][HandlerNext]_vars

ClientNext ==
    \/ SetRepoUrl /\ UNCHANGED <<hvars, uvars>>
    \/ GenerateClick /\ UNCHANGED <<hvars, uvars>>
    \/ TimerFires /\ UNCHANGED <<hvars, uvars>>

\* setTimeout always fires
ClientInit == HInit /\ CInit /\ UIdle

ClientSpec ==
    ClientInit /\ [][ClientNext]_vars
        /\ WF_vars(TimerFires /\ UNCHANGED <<hvars, uvars>>)

UrlNext ==
    \/ ApplyValidate /\ UNCHANGED <<hvars, cvars>>
    \/ ApplyExtract /\ UNCHANGED <<hvars, cvars>>

UrlInit == HInit /\ CInit /\ UInit

UrlSpec == UrlInit /\ [][UrlNext]_vars

(***************************************************************************)
(* Properties                                                              *)
(***************************************************************************)

\* "word characters and hyphens only", at least one
IsSegment(x) ==
    /\ x # <<>>
    /\ \A n \in 1..Len(x) : x[n] \in WordChars \cup {"-"}

\* s is https://github.com/<owner>/<repo> with an optional trailing slash
HasRepoUrlShape(s) ==
    \E m \in 1..Len(s), n \in 1..Len(s) :
        LET owner == SubSeq(s, Len(HttpsGithub) + 1, m)
            repo == SubSeq(s, m + 2, n)
            plain == HttpsGithub \o owner \o <<"/">> \o repo
        IN  /\ IsSegment(owner)
            /\ IsSegment(repo)
            /\ s \in {plain, plain \o <<"/">>}

\* name is <owner>/<repo>, both segments of word characters and hyphens
HasNameShape(name) ==
    \E m \in 1..Len(name) :
        /\ name[m] = "/"
        /\ IsSegment(SubSeq(name, 1, m - 1))
        /\ IsSegment(SubSeq(name, m + 1, Len(name)))

\* a step that is neither an edit of the input nor the end of a chain
NotEditNorTimer == repoUrl' = repoUrl /\ Len(chains') >= Len(chains)

NoPayload(body) ==
    \/ ~body.present
    \/ body.repoInfo \in {"absent", "null", "emptyString", "emptyObject"}

\* C1: a request whose method is not POST is answered 405 with an error,
\* whatever its body and the credential, and no OpenRouter call is issued
\* during it.
C1_MethodNotAllowed ==
    (hpc # "idle" /\ req.method # "POST")
        => (hpc = "done" /\ res.status = 405 /\ res.error # "" /\ upstreamCalls = 0)

C1_Witness ==
    /\ hpc = "done"
    /\ req.method = "GET"
    /\ req.body.present
    /\ req.body.repoInfo = "metadata"
    /\ apiKey = "sk-or-key"
    /\ res.status = 405

\* C2: a POST request without a repository-metadata payload (repoInfo absent,
\* null or otherwise empty, or no body at all) is answered 400 with an error,
\* and no OpenRouter call is issued.
C2_MissingPayload ==
    (hpc # "idle" /\ req.method = "POST" /\ NoPayload(req.body))
        => (hpc = "done" /\ res.status = 400 /\ res.error # "" /\ upstreamCalls = 0)

\* C3: a POST request with a repoInfo payload, while OPENROUTER_API_KEY is not
\* configured, is answered 500 with an error, and no OpenRouter call is issued.
C3_MissingCredential ==
    (/\ hpc # "idle"
     /\ req.method = "POST"
     /\ req.body.present
     /\ req.body.repoInfo = "metadata"
     /\ apiKey \in {"unset", ""})
        => (hpc = "done" /\ res.status = 500 /\ res.error # "" /\ upstreamCalls = 0)

C3_Witness ==
    /\ hpc = "done"
    /\ req.method = "POST"
    /\ req.body.present
    /\ req.body.repoInfo = "metadata"
    /\ apiKey = ""
    /\ res = Json(500, "API key not configured")

\* C4: when OpenRouter answers with a non-success response, whatever its body,
\* the handler answers 500 with the upstream error message, or with
\* 'Failed to generate Dockerfile' when there is none, and never anything else.
C4_UpstreamFailure ==
    (hpc = "done" /\ upstream.kind # "none" /\ ~upstream.ok)
        => /\ res.status = 500
           /\ res.error = IF upstream.kind = "errorMessage"
                          THEN upstream.message
                          ELSE GenericFailure

\* C5 as stated: from an input that is not of the shape
\* https://github.com/<owner>/<repo>[/], a Generate action only shows the
\* 'Invalid GitHub URL' toast: no chain starts, no network call is issued and
\* the busy flag, the repository info and the Dockerfile text stay as they are.
C5_InvalidUrlRejected ==
    [][(NotEditNorTimer /\ ~HasRepoUrlShape(repoUrl))
          => /\ toast' = InvalidUrlToast
             /\ UNCHANGED <<isGenerating, repoInfo, generatedDockerfile, chains, network>>]_vars

\* C5 amended: the same, for an input that is not of that shape once the
\* whitespace around it is removed.
C5_InvalidTrimmedUrlRejected ==
    [][(NotEditNorTimer /\ ~HasRepoUrlShape(Trim(repoUrl)))
          => /\ toast' = InvalidUrlToast
             /\ UNCHANGED <<isGenerating, repoInfo, generatedDockerfile, chains, network>>]_vars

C5_Witness ==
    /\ toast = InvalidUrlToast
    /\ repoUrl = HttpsGithub \o <<"a", " ", "/", "a">>
    /\ ~isGenerating
    /\ chains = <<>>
    /\ repoInfo = NoRepoInfo
    /\ generatedDockerfile = NoDockerfile

\* C6: a chain runs validation, then the repository-metadata fetch, then the
\* generation call: a chain that ended in success has issued exactly these two
\* requests, in this order.
C6_StagesInOrder ==
    toast = GeneratedToast
        => network = <<"GET api.github.com/repos", "POST /api/generate-dockerfile">>

\* C7: at most one generation chain is outstanding at any time, under any
\* interleaving of Generate clicks, edits of the URL and chain completions.
C7_SingleChain == Len(chains) <= 1

C7_Witness ==
    /\ Len(chains) = 1
    /\ isGenerating
    /\ validateGithubUrl(repoUrl)
    /\ extractRepoInfo(repoUrl).owner # chains[1].owner

\* C8: the busy flag is true exactly while a chain is outstanding, a chain
\* that ends shows the success or the failure toast and leaves the flag false,
\* and every chain that starts ends.
C8_ChainEnds ==
    /\ [](isGenerating <=> chains # <<>>)
    /\ [][Len(chains') < Len(chains)
            => /\ toast' \in {GeneratedToast, FailedToast}
               /\ chains' = <<>>
               /\ ~isGenerating']_vars
    /\ (isGenerating ~> ~isGenerating)

C8_Witness ==
    /\ toast = GeneratedToast
    /\ ~isGenerating
    /\ chains = <<>>
    /\ generatedDockerfile # NoDockerfile
    /\ ~ButtonDisabled(isGenerating, repoUrl)

\* C9: for an input the validator accepts, the extracted repository name has
\* no trailing '.git', and removing a trailing '.git' from it again returns
\* the same name.
C9_StripGitIdempotent ==
    (upc = "extracted" /\ accepted)
        => /\ extracted.found
           /\ ~EndsWith(extracted.repo, DotGit)
           /\ StripGit(extracted.repo) = extracted.repo

C9_Witness ==
    /\ upc = "extracted"
    /\ accepted
    /\ extracted.owner = <<"a", "-">>
    /\ extracted.repo = <<"a">>

\* C10: for every input the Generate action accepts, the extracted owner and
\* repo are non-empty and made of word characters and hyphens only, and the
\* stored name is <owner>/<repo>.
C10_ExtractorAgrees ==
    /\ \A k \in 1..Len(chains) : IsSegment(chains[k].owner) /\ IsSegment(chains[k].repo)
    /\ repoInfo # NoRepoInfo => HasNameShape(repoInfo.name)

====
